---- MODULE Spec2Model ----
(***************************************************************************)
(* Behavioural-cloning training program (model.py): command-line parsing,  *)
(* load_data (read log, balance, split), build_model, train_model (fit     *)
(* loop over two batch generators with a ModelCheckpoint callback, then a  *)
(* final save).  utils.py (INPUT_SHAPE, balanceData, batch_generator and   *)
(* the augmentation it applies) is modelled from sections 3-5 and 9 of the *)
(* specification.                                                          *)
(*                                                                         *)
(* Units: a float is an integer number of 1/10000 (0.2 is 2000); steering  *)
(* angles are integers in -AngleMax..AngleMax (the simulator's -1.0..1.0).  *)
(***************************************************************************)
EXTENDS Integers, Sequences, FiniteSets, TLC

\* ---------------------------------------------------------------- bounds
MaxEpoch == 2      \* largest -n value tried
MaxSteps == 2      \* largest -s value tried
MaxBatch == 2      \* largest -b value tried
MaxLoss  == 2      \* validation losses are drawn from 1..MaxLoss
MaxRows  == 4      \* longest driving log tried

\* ------------------------------------------------- command line (argparse)
Num(n)    == [kind |-> "int",    num |-> n, word |-> ""]
Frac(n)   == [kind |-> "float",  num |-> n, word |-> ""]
Word(w)   == [kind |-> "word",   num |-> 0, word |-> w]
Absent    == [kind |-> "absent", num |-> 0, word |-> ""]

ToFloat(n) == n * 10000

\* str.lower() on the words the model feeds to -o
Lower(s) ==
    CASE s = "Yes"  -> "yes"
      [] s = "TRUE" -> "true"
      [] OTHER      -> s

\* model.py s2b: anything that is not true/yes/y/1 (case-insensitive) is False
s2b(s) ==
    LET l == Lower(s)
    IN  l = "true" \/ l = "yes" \/ l = "y" \/ l = "1"

\* type=int: int("2") succeeds, int("0.5") and int("abc") raise ValueError
IntOk(tok)   == tok.kind \in {"int", "absent"}
\* type=float: float("2"), float("0.5") succeed, float("abc") raises
FloatOk(tok) == tok.kind \in {"int", "float", "absent"}
\* type=s2b never raises: every string is converted
BoolOk(tok)  == TRUE

IntVal(tok, default)   == IF tok.kind = "absent" THEN default ELSE tok.num
FloatVal(tok, default) ==
    CASE tok.kind = "absent" -> default
      [] tok.kind = "int"    -> ToFloat(tok.num)
      [] OTHER               -> tok.num
BoolVal(tok, default) ==
    IF tok.kind = "absent" THEN s2b(default)
    ELSE IF tok.kind = "word" THEN s2b(tok.word)
    ELSE tok.num = 1

DefaultTestSize == 2000
DefaultKeepProb == 2500
DefaultNbEpoch  == 1
DefaultSamplesPerEpoch == 10
DefaultBatchSize == 40
DefaultLearningRate == 1

NoArgs ==
    [test_size |-> 0, keep_prob |-> 0, nb_epoch |-> 0, samples_per_epoch |-> 0,
     batch_size |-> 0, save_best_only |-> FALSE, learning_rate |-> 0]

\* parser.parse_args(): every value goes through its type; one failure is a
\* usage error (exit status 2)
parse_ok(av) ==
    /\ FloatOk(av.t) /\ FloatOk(av.k) /\ IntOk(av.n) /\ IntOk(av.s)
    /\ IntOk(av.b) /\ BoolOk(av.o) /\ FloatOk(av.l)

parse_args(av) ==
    [test_size         |-> FloatVal(av.t, DefaultTestSize),
     keep_prob         |-> FloatVal(av.k, DefaultKeepProb),
     nb_epoch          |-> IntVal(av.n, DefaultNbEpoch),
     samples_per_epoch |-> IntVal(av.s, DefaultSamplesPerEpoch),
     batch_size        |-> IntVal(av.b, DefaultBatchSize),
     save_best_only    |-> BoolVal(av.o, "true"),
     learning_rate     |-> FloatVal(av.l, DefaultLearningRate)]

\* ------------------------------------------------------------ data set
AngleMax    == 2      \* the simulator's steering range is -AngleMax..AngleMax
BucketWidth == 2      \* width of one steering-angle bucket
BucketCap   == 2      \* most samples the Balancer leaves in a bucket
MinRetain   == 1      \* fewest samples the Balancer leaves in a non-empty bucket
INPUT_SHAPE == <<160, 320, 3>>

Angles == -AngleMax .. AngleMax

Row(f, a) == [frame |-> f, steering |-> a]

Bucket(a) == (a + AngleMax) \div BucketWidth

InBucket(df, b) == {i \in DOMAIN df : Bucket(df[i].steering) = b}

Buckets(df) == {Bucket(df[i].steering) : i \in DOMAIN df}

RECURSIVE Pick(_, _, _)
\* the rows of df at the positions in keep, in df's order
Pick(df, keep, i) ==
    IF i > Len(df) THEN <<>>
    ELSE IF i \in keep THEN <<df[i]>> \o Pick(df, keep, i + 1)
    ELSE Pick(df, keep, i + 1)

\* balanceData: a bucket over the cap is down-sampled to the cap (which rows
\* survive depends on the seeded shuffle: any choice), other buckets are kept
balanceData(df) ==
    {Pick(df, keep, 1) : keep \in
        {k \in SUBSET DOMAIN df :
            \A b \in Buckets(df) :
                LET have == InBucket(df, b)
                IN  IF Cardinality(have) > BucketCap
                    THEN Cardinality(have \cap k) = BucketCap
                    ELSE have \subseteq k}}

balance_skipped(df) == {df}

\* load_data line 26: data_df = balanceData(data_df, display=False)
balanced(df) == balanceData(df)

Paths(row) == [center |-> row.frame, left |-> row.frame, right |-> row.frame]

\* lines 29-30: X = data_df[['center','left','right']].values, y = steering
XOf(df) == [i \in DOMAIN df |-> Paths(df[i])]
yOf(df) == [i \in DOMAIN df |-> df[i].steering]

\* sklearn: n_test = ceil(test_size * n_samples), n_train = n_samples - n_test
n_test(test_size, n) == (test_size * n + ToFloat(1) - 1) \div ToFloat(1)

\* train_test_split raises ValueError for a float test_size outside (0, 1),
\* for no samples, and when the training set would be empty
split_ok(test_size, n) ==
    /\ test_size > 0 /\ test_size < ToFloat(1)
    /\ n >= 1
    /\ n - n_test(test_size, n) >= 1

Take(arr, perm, lo, hi) == [i \in 1 .. (hi - lo + 1) |-> arr[perm[lo + i - 1]]]

split_y_unshuffled(X, y, test_size, perm) ==
    LET n  == Len(X)
        nt == n_test(test_size, n)
    IN  [X_train |-> Take(X, perm, nt + 1, n), X_valid |-> Take(X, perm, 1, nt),
         y_train |-> SubSeq(y, nt + 1, n),     y_valid |-> SubSeq(y, 1, nt)]

\* train_test_split(X, y, test_size, random_state=0): one permutation indexes
\* both arrays; its first n_test entries are the validation part
train_test_split(X, y, test_size, perm) ==
    LET n  == Len(X)
        nt == n_test(test_size, n)
    IN  [X_train |-> Take(X, perm, nt + 1, n), X_valid |-> Take(X, perm, 1, nt),
         y_train |-> Take(y, perm, nt + 1, n), y_valid |-> Take(y, perm, 1, nt)]

\* Dropout(rate) raises ValueError unless 0 <= rate <= 1
dropout_ok(rate) == rate >= 0 /\ rate <= ToFloat(1)

\* ------------------------------------------------- RNG, Augmentor, batches
MaxShift == 1      \* a translation moves the image by -MaxShift..MaxShift
TransK   == 1      \* steering change per unit of horizontal shift

\* the k-th value of the global np.random stream after np.random.seed(0)
Draw(k) == (k * k * 3 + k * 5 + 1) % 12

\* the image file of one camera, as read from disk
load_image(paths, cam, angle) ==
    [frame |-> paths[cam], cam |-> cam, angle |-> angle, flipped |-> FALSE,
     tx |-> 0, ty |-> 0, bright |-> 0, augmented |-> FALSE, shape |-> <<160, 320, 3>>]

\* weighted pick of one of the three camera views
choose_image(paths, angle, r) ==
    load_image(paths,
               CASE r % 4 = 0 -> "left" [] r % 4 = 1 -> "right" [] OTHER -> "center",
               angle)

flip_keeps_angle(s, r) ==
    IF r % 2 = 1 THEN [s EXCEPT !.flipped = ~@] ELSE s

\* optional horizontal flip, negating the angle
random_flip(s, r) ==
    IF r % 2 = 1 THEN [s EXCEPT !.flipped = ~@, !.angle = -@] ELSE s

\* small translation; the angle changes in proportion to the horizontal shift
random_translate(s, rx, ry) ==
    LET dx == (rx % (2 * MaxShift + 1)) - MaxShift
        dy == (ry % (2 * MaxShift + 1)) - MaxShift
    IN  [s EXCEPT !.tx = dx, !.ty = dy, !.angle = @ + dx * TransK]

random_brightness(s, r) == [s EXCEPT !.bright = r % 3]

\* deterministic crop/resize to the model's input shape
preprocess(s) == [s EXCEPT !.shape = INPUT_SHAPE]

\* the Augmentor on one sample; r holds the five draws it consumes
augment(paths, angle, r) ==
    LET s1 == choose_image(paths, angle, r[1])
        s2 == random_flip(s1, r[2])
        s3 == random_translate(s2, r[3], r[4])
        s4 == random_brightness(s3, r[5])
    IN  [s4 EXCEPT !.augmented = TRUE]

\* draws one sample costs: its index, and five more when augmenting
DrawsPerSample(is_training) == IF is_training THEN 6 ELSE 1

NoGen == [created |-> FALSE, batch_size |-> 0, is_training |-> FALSE,
          pulled |-> 0, last_pos |-> 0]

\* batch_generator(data_dir, image_paths, steering_angles, batch_size, is_training)
batch_generator(batch_size, is_training) ==
    [created |-> TRUE, batch_size |-> batch_size, is_training |-> is_training,
     pulled |-> 0, last_pos |-> 0]

\* a generator can produce a batch from non-empty arrays and a size >= 1
can_yield(gen, X) == gen.batch_size >= 1 /\ Len(X) >= 1

\* one sample of a batch, drawn with the stream at position p
sample_at(gen, X, y, p) ==
    LET idx == (Draw(p) % Len(X)) + 1
    IN  IF gen.is_training
        THEN preprocess(augment(X[idx], y[idx],
                 <<Draw(p + 1), Draw(p + 2), Draw(p + 3), Draw(p + 4), Draw(p + 5)>>))
        ELSE preprocess(load_image(X[idx], "center", y[idx]))

\* next(generator): batch_size samples, drawn from position pos of the stream
next_batch(gen, X, y, pos) ==
    [i \in 1 .. gen.batch_size |->
        sample_at(gen, X, y, pos + (i - 1) * DrawsPerSample(gen.is_training))]

draws_per_batch(gen) == gen.batch_size * DrawsPerSample(gen.is_training)

\* ------------------------------------------------------------------ state
VARIABLES
    argv,          \* the command line: one token per flag
    driving_log,   \* rows of driving_log.csv
    pc,            \* where main is
    phases,        \* the phases main has entered, in order
    args,          \* the parsed namespace
    data_df,       \* load_data's data frame after balancing
    X_train, X_valid, y_train, y_valid,
    model,         \* the Keras model
    checkpoint,    \* the ModelCheckpoint callback
    train_gen, valid_gen,
    rng,           \* position in the global np.random stream
    epoch,         \* epochs completed by fit
    step,          \* batches pulled in the current phase of the epoch
    train_batch, valid_batch,   \* the last batch each generator yielded
    history,       \* val_loss of each completed epoch
    file_h5,       \* model.h5 on disk
    aug_pc, aug_in, aug_s, aug_prev   \* one Augmentor run, step by step

dataVars == <<data_df, X_train, X_valid, y_train, y_valid>>
fitVars  == <<model, checkpoint, train_gen, valid_gen, rng, epoch, step,
              train_batch, valid_batch, history, file_h5>>
augVars  == <<aug_pc, aug_in, aug_s, aug_prev>>
vars     == <<argv, driving_log, pc, phases, args, dataVars, fitVars, augVars>>

NoModel == [built |-> FALSE, dropout |-> 0, compiled |-> FALSE, learning_rate |-> 0]
NoCheckpoint == [created |-> FALSE, save_best_only |-> FALSE, has_best |-> FALSE, best |-> 0]
NoFile == [exists |-> FALSE, holds |-> 0, writes |-> 0, by |-> "none"]
NoSample == load_image([center |-> 0, left |-> 0, right |-> 0], "center", 0)
NoAugIn == [paths |-> [center |-> 0, left |-> 0, right |-> 0], angle |-> 0,
            r |-> <<0, 0, 0, 0, 0>>, is_training |-> FALSE]

TestSizeToks == {Absent, Frac(5000), Frac(15000), Word("abc")}
KeepProbToks == {Absent, Frac(15000)}
EpochToks    == {Num(n) : n \in 0 .. MaxEpoch} \cup {Word("x")}
StepsToks    == {Num(n) : n \in 1 .. MaxSteps} \cup {Word("x")}
BatchToks    == {Num(n) : n \in 0 .. MaxBatch} \cup {Frac(5000)}
BoolToks     == {Absent, Word("Yes"), Word("false"), Word("maybe")}
RateToks     == {Absent, Word("fast")}

Argvs == [t : TestSizeToks, k : KeepProbToks, n : EpochToks, s : StepsToks,
          b : BatchToks, o : BoolToks, l : RateToks]

\* one well-formed command line: -t 0.5 -n 1 -s 1 -b MaxBatch
PlainArgv == [t |-> Frac(5000), k |-> Absent, n |-> Num(1), s |-> Num(1),
              b |-> Num(MaxBatch), o |-> Absent, l |-> Absent]

\* a log whose rows fall into different buckets
SpreadLog(n) == [i \in 1 .. n |-> Row(i, ((2 * i) % (2 * AngleMax + 1)) - AngleMax)]

LogsOver(angles, n) ==
    UNION {{[i \in 1 .. m |-> Row(i, a[i])] : a \in [1 .. m -> angles]} : m \in 0 .. n}

InitRest ==
    /\ pc = "parse" /\ phases = <<"parse">>
    /\ args = NoArgs
    /\ data_df = <<>>
    /\ X_train = <<>> /\ X_valid = <<>> /\ y_train = <<>> /\ y_valid = <<>>
    /\ model = NoModel /\ checkpoint = NoCheckpoint
    /\ train_gen = NoGen /\ valid_gen = NoGen
    /\ rng = 0                       \* np.random.seed(0)
    /\ epoch = 0 /\ step = 0
    /\ train_batch = <<>> /\ valid_batch = <<>>
    /\ history = <<>>
    /\ file_h5 = NoFile
    /\ aug_pc = "idle" /\ aug_in = NoAugIn /\ aug_s = NoSample /\ aug_prev = 0

\* every command line, over a spread log and an empty one
Init ==
    /\ argv \in Argvs
    /\ driving_log \in {SpreadLog(3), <<>>}
    /\ InitRest

\* one command line, over every log
InitData ==
    /\ argv = PlainArgv
    /\ driving_log \in LogsOver({0, 1, AngleMax}, MaxRows)
    /\ InitRest

\* --------------------------------------------------------------- actions
\* main, lines 104-113: parse_args either fills args or prints usage and exits 2
Parse ==
    /\ pc = "parse"
    /\ IF parse_ok(argv)
       THEN /\ args' = parse_args(argv)
            /\ pc' = "load_data"
            /\ phases' = Append(phases, "load_data")
       ELSE /\ pc' = "usage_exit"
            /\ UNCHANGED <<args, phases>>
    /\ UNCHANGED <<argv, driving_log, dataVars, fitVars, augVars>>

\* load_data, lines 18-35: read the log, balance, split
load_data ==
    /\ pc = "load_data"
    /\ \E df \in balanced(driving_log) :
         /\ data_df' = df
         /\ IF split_ok(args.test_size, Len(df))
            THEN \E perm \in Permutations(DOMAIN df) :
                   LET parts == train_test_split(XOf(df), yOf(df), args.test_size, perm)
                   IN  /\ X_train' = parts.X_train /\ X_valid' = parts.X_valid
                       /\ y_train' = parts.y_train /\ y_valid' = parts.y_valid
                       /\ pc' = "build_model"
                       /\ phases' = Append(phases, "build_model")
            ELSE /\ pc' = "error"
                 /\ UNCHANGED <<X_train, X_valid, y_train, y_valid, phases>>
    /\ UNCHANGED <<argv, driving_log, args, fitVars, augVars>>

\* build_model, lines 38-69: the one layer that depends on args is Dropout
build_model ==
    /\ pc = "build_model"
    /\ IF dropout_ok(args.keep_prob)
       THEN /\ model' = [model EXCEPT !.built = TRUE, !.dropout = args.keep_prob]
            /\ pc' = "train_model"
            /\ phases' = Append(phases, "train_model")
       ELSE /\ pc' = "error"
            /\ UNCHANGED <<model, phases>>
    /\ UNCHANGED <<argv, driving_log, args, dataVars, checkpoint, train_gen, valid_gen,
                   rng, epoch, step, train_batch, valid_batch, history, file_h5, augVars>>

generator_of_steps(a) == batch_generator(a.samples_per_epoch, TRUE)

\* line 86: batch_generator(args.data_dir, X_train, y_train, args.batch_size, True)
train_generator(a) == batch_generator(a.batch_size, TRUE)

\* line 87: batch_generator(args.data_dir, X_valid, y_valid, args.batch_size, True)
validation_generator(a) == batch_generator(a.batch_size, TRUE)

\* train_model, lines 77-87 up to the first step of fit
train_model ==
    /\ pc = "train_model"
    /\ model' = [model EXCEPT !.compiled = TRUE, !.learning_rate = args.learning_rate]
    /\ checkpoint' = [created |-> TRUE, save_best_only |-> args.save_best_only,
                      has_best |-> FALSE, best |-> 0]
    /\ train_gen' = train_generator(args)
    /\ valid_gen' = validation_generator(args)
    /\ epoch' = 0 /\ step' = 0
    /\ pc' = IF args.nb_epoch > 0 THEN "fit_train" ELSE "save"
    /\ UNCHANGED <<argv, driving_log, phases, args, dataVars, rng, train_batch,
                   valid_batch, history, file_h5, augVars>>

steps_one_more(st, a) == st >= a.samples_per_epoch

\* fit(steps_per_epoch=args.samples_per_epoch, validation_steps=args.samples_per_epoch):
\* the pull that brings the count to samples_per_epoch is the phase's last
steps_done(st, a) == st + 1 >= a.samples_per_epoch

\* fit(epochs=args.nb_epoch)
epochs_done(e, a) == e >= a.nb_epoch

\* fit pulls one training batch (line 86)
FitTrainStep ==
    /\ pc = "fit_train"
    /\ IF can_yield(train_gen, X_train)
       THEN /\ train_batch' = next_batch(train_gen, X_train, y_train, rng)
            /\ train_gen' = [train_gen EXCEPT !.pulled = @ + 1, !.last_pos = rng]
            /\ rng' = rng + draws_per_batch(train_gen)
            /\ IF steps_done(step, args)
               THEN pc' = "fit_valid" /\ step' = 0
               ELSE pc' = "fit_train" /\ step' = step + 1
       ELSE /\ pc' = "error"
            /\ UNCHANGED <<train_batch, train_gen, rng, step>>
    /\ UNCHANGED <<argv, driving_log, phases, args, dataVars, model, checkpoint,
                   valid_gen, epoch, valid_batch, history, file_h5, augVars>>

\* fit pulls one validation batch (line 87)
FitValidStep ==
    /\ pc = "fit_valid"
    /\ IF can_yield(valid_gen, X_valid)
       THEN /\ valid_batch' = next_batch(valid_gen, X_valid, y_valid, rng)
            /\ valid_gen' = [valid_gen EXCEPT !.pulled = @ + 1, !.last_pos = rng]
            /\ rng' = rng + draws_per_batch(valid_gen)
            /\ IF steps_done(step, args)
               THEN pc' = "epoch_end" /\ step' = 0
               ELSE pc' = "fit_valid" /\ step' = step + 1
       ELSE /\ pc' = "error"
            /\ UNCHANGED <<valid_batch, valid_gen, rng, step>>
    /\ UNCHANGED <<argv, driving_log, phases, args, dataVars, model, checkpoint,
                   train_gen, epoch, train_batch, history, file_h5, augVars>>

\* ModelCheckpoint with monitor='val_loss', mode='auto': lower is better
improved(ck, loss) == ~ck.has_best \/ loss < ck.best

\* the end of an epoch: val_loss is logged and ModelCheckpoint.on_epoch_end
\* runs (lines 79-83)
EpochEnd ==
    /\ pc = "epoch_end"
    /\ \E loss \in 1 .. MaxLoss :
         /\ history' = Append(history, loss)
         /\ epoch' = epoch + 1
         /\ IF checkpoint.save_best_only
            THEN IF improved(checkpoint, loss)
                 THEN /\ checkpoint' = [checkpoint EXCEPT !.has_best = TRUE, !.best = loss]
                      /\ file_h5' = [exists |-> TRUE, holds |-> epoch + 1,
                                     writes |-> file_h5.writes + 1, by |-> "checkpoint"]
                 ELSE UNCHANGED <<checkpoint, file_h5>>
            ELSE /\ file_h5' = [exists |-> TRUE, holds |-> epoch + 1,
                                writes |-> file_h5.writes + 1, by |-> "checkpoint"]
                 /\ UNCHANGED checkpoint
    /\ pc' = IF epochs_done(epoch + 1, args) THEN "save" ELSE "fit_train"
    /\ UNCHANGED <<argv, driving_log, phases, args, dataVars, model, train_gen,
                   valid_gen, rng, step, train_batch, valid_batch, augVars>>

\* line 90: model.save('model.h5') once fit has returned
SaveModel ==
    /\ pc = "save"
    /\ file_h5' = [exists |-> TRUE, holds |-> epoch,
                   writes |-> file_h5.writes + 1, by |-> "save"]
    /\ pc' = "done"
    /\ UNCHANGED <<argv, driving_log, phases, args, dataVars, model, checkpoint,
                   train_gen, valid_gen, rng, epoch, step, train_batch, valid_batch,
                   history, augVars>>

Next ==
    \/ Parse
    \/ load_data
    \/ build_model
    \/ train_model
    \/ FitTrainStep
    \/ FitValidStep
    \/ EpochEnd
    \/ SaveModel

Spec == Init /\ [][Next]_vars

SpecData == InitData /\ [][Next]_vars

\* main is one sequential thread: whatever step is enabled is taken
FairSpec == Spec /\ WF_vars(Next)

Terminated == pc \in {"done", "usage_exit", "error"}

\* ------------------------------------------- the Augmentor, step by step
AugInputs ==
    [paths : {[center |-> 1, left |-> 1, right |-> 1]},
     angle : Angles,
     r : {<<a, b, c, d, e>> : a \in 0 .. 3, b \in 0 .. 1, c \in 0 .. 2 * MaxShift,
                              d \in 0 .. 2 * MaxShift, e \in 0 .. 2},
     is_training : BOOLEAN]

InitAug ==
    /\ argv = PlainArgv /\ driving_log = <<>>
    /\ pc = "off" /\ phases = <<>>
    /\ args = NoArgs
    /\ data_df = <<>>
    /\ X_train = <<>> /\ X_valid = <<>> /\ y_train = <<>> /\ y_valid = <<>>
    /\ model = NoModel /\ checkpoint = NoCheckpoint
    /\ train_gen = NoGen /\ valid_gen = NoGen
    /\ rng = 0 /\ epoch = 0 /\ step = 0
    /\ train_batch = <<>> /\ valid_batch = <<>>
    /\ history = <<>> /\ file_h5 = NoFile
    /\ aug_pc = "choose" /\ aug_in \in AugInputs
    /\ aug_s = NoSample /\ aug_prev = 0

pipelineVars == <<argv, driving_log, pc, phases, args, dataVars, fitVars>>

\* camera pick when training, the centre image otherwise
AugChoose ==
    /\ aug_pc = "choose"
    /\ aug_prev' = aug_in.angle
    /\ IF aug_in.is_training
       THEN /\ aug_s' = choose_image(aug_in.paths, aug_in.angle, aug_in.r[1])
            /\ aug_pc' = "flip"
       ELSE /\ aug_s' = load_image(aug_in.paths, "center", aug_in.angle)
            /\ aug_pc' = "preprocess"
    /\ UNCHANGED <<aug_in, pipelineVars>>

AugFlip ==
    /\ aug_pc = "flip"
    /\ aug_prev' = aug_s.angle
    /\ aug_s' = random_flip(aug_s, aug_in.r[2])
    /\ aug_pc' = "translate"
    /\ UNCHANGED <<aug_in, pipelineVars>>

AugTranslate ==
    /\ aug_pc = "translate"
    /\ aug_prev' = aug_s.angle
    /\ aug_s' = random_translate(aug_s, aug_in.r[3], aug_in.r[4])
    /\ aug_pc' = "brightness"
    /\ UNCHANGED <<aug_in, pipelineVars>>

AugBrightness ==
    /\ aug_pc = "brightness"
    /\ aug_prev' = aug_s.angle
    /\ aug_s' = [random_brightness(aug_s, aug_in.r[5]) EXCEPT !.augmented = TRUE]
    /\ aug_pc' = "preprocess"
    /\ UNCHANGED <<aug_in, pipelineVars>>

AugPreprocess ==
    /\ aug_pc = "preprocess"
    /\ aug_prev' = aug_s.angle
    /\ aug_s' = preprocess(aug_s)
    /\ aug_pc' = "done"
    /\ UNCHANGED <<aug_in, pipelineVars>>

NextAug ==
    \/ AugChoose
    \/ AugFlip
    \/ AugTranslate
    \/ AugBrightness
    \/ AugPreprocess

SpecAug == InitAug /\ [][NextAug]_vars

\* ---------------------------------------------------------------- claims
Loaded == pc \notin {"off", "parse", "usage_exit", "load_data"}
SplitDone == Loaded /\ "build_model" \in {phases[i] : i \in DOMAIN phases}
FitStarted == train_gen.created

\* C1: the validation generator is created with is_training false, and no
\* sample of a validation batch went through the random augmentation.
C1_ValidationNotAugmented ==
    valid_gen.created =>
        /\ ~valid_gen.is_training
        /\ \A i \in DOMAIN valid_batch : ~valid_batch[i].augmented

LeastLoss(h) == CHOOSE l \in {h[e] : e \in DOMAIN h} : \A e \in DOMAIN h : l <= h[e]

\* C2: model.h5 is written only at the end of an epoch: with the best-only
\* flag it holds the model of the best val_loss so far, without it the model
\* of the latest epoch, written once per epoch.
C2_CheckpointOnlyAtEpochEnd ==
    file_h5.exists =>
        /\ file_h5.by = "checkpoint"
        /\ file_h5.holds \in DOMAIN history
        /\ IF args.save_best_only
           THEN history[file_h5.holds] = LeastLoss(history)
           ELSE file_h5.holds = Len(history) /\ file_h5.writes = Len(history)

BooleanWords == {"true", "yes", "y", "1", "false", "no", "n", "0"}

\* what the claim calls an invalid value, flag by flag
InvalidValue(av) ==
    \/ av.o.kind = "word" /\ Lower(av.o.word) \notin BooleanWords
    \/ \E f \in {"t", "k", "l"} : av[f].kind = "word"
    \/ \E f \in {"n", "s", "b"} : av[f].kind \in {"word", "float"}
    \/ av.b.kind = "int" /\ av.b.num <= 0
    \/ av.t.kind \in {"int", "float"}
         /\ ~(FloatVal(av.t, 0) > 0 /\ FloatVal(av.t, 0) < ToFloat(1))
    \/ av.k.kind \in {"int", "float"}
         /\ ~(FloatVal(av.k, 0) >= 0 /\ FloatVal(av.k, 0) < ToFloat(1))

\* C3: a command line with an invalid value never gets past parsing: main
\* stops with the usage message before load_data is entered.
C3_InvalidFlagsRejectedAtParse ==
    InvalidValue(argv) => pc \in {"parse", "usage_exit"}

WellShaped(batch) ==
    /\ Len(batch) = args.batch_size
    /\ \A i \in DOMAIN batch : batch[i].shape = INPUT_SHAPE

C5_GeneratorsOwnTheirStreams ==
    /\ train_gen.pulled > 0 =>
          train_gen.last_pos = (train_gen.pulled - 1) * draws_per_batch(train_gen)
    /\ valid_gen.pulled > 0 =>
          valid_gen.last_pos = (valid_gen.pulled - 1) * draws_per_batch(valid_gen)

Rows(df) == {df[i] : i \in DOMAIN df}
RowsIn(df, b) == {r \in Rows(df) : Bucket(r.steering) = b}

C7_AngleStaysInRange ==
    (aug_pc = "done" /\ aug_in.angle \in Angles) => aug_s.angle \in Angles

\* C8: the flip step negates the angle when it flips and leaves it alone when
\* it does not; flipping twice gives the angle back.
C8_FlipNegatesAngle ==
    aug_pc = "translate" =>
        /\ aug_s.angle = (IF aug_s.flipped THEN -aug_prev ELSE aug_prev)
        /\ aug_s.flipped = (aug_in.r[2] % 2 = 1)
        /\ random_flip(random_flip(aug_s, 1), 1).angle = aug_s.angle
        /\ random_flip(aug_s, 1).angle = -aug_s.angle

C8_Witness ==
    aug_pc = "translate" /\ aug_s.flipped /\ aug_prev # 0 /\ aug_s.angle = -aug_prev

Pairs(X, y) == {<<X[i], y[i]>> : i \in DOMAIN X}

C9_Partition ==
    SplitDone =>
        /\ Len(y_train) = Len(X_train) /\ Len(y_valid) = Len(X_valid)
        /\ Len(X_train) + Len(X_valid) = Len(data_df)
        /\ Pairs(X_train, y_train) \cap Pairs(X_valid, y_valid) = {}
        /\ Pairs(X_train, y_train) \cup Pairs(X_valid, y_valid)
              = {<<Paths(r), r.steering>> : r \in Rows(data_df)}
        /\ Rows(data_df) \subseteq Rows(driving_log)

\* C9: the split is a partition of the balanced rows, each path triple with
\* its own angle, and once load_data has returned nothing changes the
\* partitions, the balanced frame or the log.
C9_SplitIsFrozenPartition ==
    /\ []C9_Partition
    /\ [][Loaded => UNCHANGED <<dataVars, driving_log>>]_vars

C9_Witness ==
    /\ pc = "done"
    /\ Len(X_train) >= 1 /\ Len(X_valid) >= 2
    /\ Len(data_df) < Len(driving_log)
    /\ train_gen.pulled > 0 /\ valid_gen.pulled > 0

PhaseOrder == <<"parse", "load_data", "build_model", "train_model">>

C10_Counts ==
    /\ phases = SubSeq(PhaseOrder, 1, Len(phases))
    /\ FitStarted =>
          /\ train_gen.pulled <= args.nb_epoch * args.samples_per_epoch
          /\ valid_gen.pulled <= args.nb_epoch * args.samples_per_epoch
          /\ valid_gen.pulled <= train_gen.pulled
    /\ pc = "done" =>
          /\ phases = PhaseOrder
          /\ train_gen.pulled = args.nb_epoch * args.samples_per_epoch
          /\ valid_gen.pulled = args.nb_epoch * args.samples_per_epoch
          /\ epoch = args.nb_epoch
          /\ file_h5.exists /\ file_h5.by = "save" /\ file_h5.holds = args.nb_epoch
    /\ pc \in {"usage_exit", "error"} => file_h5.by # "save"

====
